---- MODULE Spec2Model ----
(***************************************************************************)
(* Model of the jt_test command of sci_tools/main.py: a CSV table is read, *)
(* its rows are filtered to an ordered list of group labels, every numeric *)
(* column is handed to the external Jonckheere-Terpstra test, the raw      *)
(* p-values are corrected with Benjamini-Hochberg, flagged, sorted and     *)
(* written to the output file.                                             *)
(*                                                                         *)
(* Text is modelled as sequences of one-character strings, a CSV cell is   *)
(* such a sequence (the empty one is a missing value).  Probabilities are  *)
(* integers: the value v stands for v / One.                               *)
(***************************************************************************)
EXTENDS Integers, Sequences, FiniteSets, TLC

\* -------------------------------------------------------------- bounds
MaxCols == 3      \* columns of an input table
MaxRows == 2      \* rows of an input table
PMax == 2         \* raw p-values are k / PMax, k in 0..PMax

\* ------------------------------------------------------------- helpers
RECURSIVE Fact(_)
Fact(n) == IF n <= 1 THEN 1 ELSE n * Fact(n - 1)

Unit == Fact(MaxCols)
One == PMax * Unit
PVal(k) == k * Unit

Range(s) == {s[i] : i \in 1..Len(s)}
IsDistinct(s) == \A i, j \in 1..Len(s) : s[i] = s[j] => i = j
MinOf(S) == CHOOSE x \in S : \A y \in S : x <= y
IndexOf(s, x) == IF x \in Range(s) THEN MinOf({i \in 1..Len(s) : s[i] = x}) ELSE 0

\* --------------------------------------------------------------- text
NA == <<>>
Digits == {"0", "1", "2", "3", "4", "5", "6", "7", "8", "9"}
IsNumeral(c) == c # <<>> /\ \A i \in 1..Len(c) : c[i] \in Digits

\* str.split(","): the pieces between the commas, empty pieces kept
RECURSIVE Split(_)
Split(s) ==
  IF \A i \in 1..Len(s) : s[i] # "," THEN <<s>>
  ELSE LET i == MinOf({k \in 1..Len(s) : s[k] = ","})
       IN <<SubSeq(s, 1, i - 1)>> \o Split(SubSeq(s, i + 1, Len(s)))

RECURSIVE LStrip(_)
LStrip(s) == IF s # <<>> /\ Head(s) = " " THEN LStrip(Tail(s)) ELSE s
RECURSIVE RStrip(_)
RStrip(s) == IF s # <<>> /\ s[Len(s)] = " " THEN RStrip(SubSeq(s, 1, Len(s) - 1)) ELSE s
\* str.strip()
Strip(s) == RStrip(LStrip(s))

\* ordered_groups = [g.strip() for g in group_order.split(",")]
OrderedGroups(group_order) ==
  LET parts == Split(group_order) IN [i \in 1..Len(parts) |-> Strip(parts[i])]

\* ------------------------------------------------------------ the table
\* pd.read_csv: a column whose non-missing cells are all numerals is numeric
\* (an entirely empty column is float64), any other column holds objects
InferDtype(cells) ==
  IF \A r \in 1..Len(cells) : cells[r] = NA \/ IsNumeral(cells[r])
  THEN "number" ELSE "object"

ReadCsv(file) ==
  [c \in 1..Len(file.cols) |->
     [name |-> file.cols[c].name,
      dtype |-> InferDtype(file.cols[c].cells),
      cells |-> file.cols[c].cells]]

Columns(frame) == {frame[c].name : c \in 1..Len(frame)}
ColOf(frame, name) == frame[MinOf({c \in 1..Len(frame) : frame[c].name = name})]
NRows(frame) == IF frame = <<>> THEN 0 ELSE Len(frame[1].cells)

\* Series.isin(values): a missing cell is in no list of strings, and a number
\* equals no string
IsIn(dtype, cell, values) == dtype = "object" /\ cell # NA /\ cell \in Range(values)

RECURSIVE KeptRows(_, _, _)
KeptRows(col, values, r) ==
  IF r > Len(col.cells) THEN <<>>
  ELSE (IF IsIn(col.dtype, col.cells[r], values) THEN <<r>> ELSE <<>>)
       \o KeptRows(col, values, r + 1)

\* df[df[group_column].isin(ordered_groups)].copy(), then the grouping column
\* becomes an ordered Categorical
FilterGroups(frame, group_column, values) ==
  LET keep == KeptRows(ColOf(frame, group_column), values, 1)
  IN [index |-> keep,
      cols |-> [c \in 1..Len(frame) |->
                 [name |-> frame[c].name,
                  dtype |-> IF frame[c].name = group_column
                            THEN "category" ELSE frame[c].dtype,
                  cells |-> [k \in 1..Len(keep) |-> frame[c].cells[keep[k]]]]]]

\* Categorical codes: the 0-based position in the categories, -1 when absent
CatCode(categories, label) == IndexOf(categories, label) - 1

\* --------------------------------------------------- column selection
ExcludeGroupOnly(frame, group_column, id_column) == <<group_column>>
ColsToExclude(frame, group_column, id_column) ==
  <<group_column>> \o (IF id_column \in Columns(frame) THEN <<id_column>> ELSE <<>>)

RECURSIVE NumericNames(_, _)
NumericNames(cols, c) ==
  IF c > Len(cols) THEN <<>>
  ELSE (IF cols[c].dtype = "number" THEN <<cols[c].name>> ELSE <<>>)
       \o NumericNames(cols, c + 1)

RECURSIVE Without(_, _)
Without(names, excluded) ==
  IF names = <<>> THEN <<>>
  ELSE (IF Head(names) \in Range(excluded) THEN <<>> ELSE <<Head(names)>>)
       \o Without(Tail(names), excluded)

TargetColumns(filtered, excluded) == Without(NumericNames(filtered.cols, 1), excluded)

\* ------------------------------------------------------ direction map
AltKeys == {"two_sided", "two-sided", "greater", "increasing", "less", "decreasing"}
AltMapNoLess(alternative) ==
  CASE alternative \in {"two_sided", "two-sided"} -> "two-sided"
    [] alternative \in {"greater", "increasing"} -> "increasing"
    [] alternative = "decreasing" -> "decreasing"
    [] OTHER -> "two-sided"
AltMap(alternative) ==
  CASE alternative \in {"two_sided", "two-sided"} -> "two-sided"
    [] alternative \in {"greater", "increasing"} -> "increasing"
    [] alternative \in {"less", "decreasing"} -> "decreasing"
    [] OTHER -> "two-sided"

\* ------------------------------------------------- per-column testing
\* df_filtered[[col, group_column]].dropna(): the rows where neither the value
\* nor the group category is missing; x the values, g the category codes
RECURSIVE DropNa(_, _, _, _)
DropNa(xs, gs, categories, k) ==
  IF k > Len(xs) THEN <<>>
  ELSE (IF xs[k] # NA /\ CatCode(categories, gs[k]) >= 0
        THEN <<[x |-> xs[k], g |-> CatCode(categories, gs[k])]>> ELSE <<>>)
       \o DropNa(xs, gs, categories, k + 1)

CurrentData(filtered, col, group_column, categories) ==
  DropNa(ColOf(filtered.cols, col).cells, ColOf(filtered.cols, group_column).cells,
         categories, 1)

\* if len(current_data) == 0: continue
NeverEmpty(data) == TRUE
HasUsableRows(data) == Len(data) # 0

\* what the external test can do with one column: raise, or return an object
\* holding a statistic, a p-value and a z-score that may be None ({} here)
Raised == [raises |-> TRUE, statistic |-> 0, z_score |-> {}, p_value |-> 0]
Returned(k) ==
  [raises |-> FALSE, statistic |-> k + 1,
   z_score |-> IF k = 0 THEN {} ELSE {k}, p_value |-> PVal(k)]
Outcomes == {Raised} \cup {Returned(k) : k \in 0..PMax}

\* zstat = result_obj.z_score if result_obj.z_score is not None else 0
ZStat(z_score) == IF z_score # {} THEN CHOOSE z \in z_score : TRUE ELSE 0

ResultRow(col, r) ==
  [Variable |-> col, JTR_Sum |-> r.statistic, Z_statistic |-> ZStat(r.z_score),
   P_value_Raw |-> r.p_value]

\* the loop goes on with the next column after "continue"
BreakLoop(i, n) == n + 1
NextColumn(i, n) == i + 1

\* ------------------------------------------------ correction and output
\* multipletests(..., method="fdr_bh"): p * n / rank, made monotone from the
\* largest p-value down and capped at 1; one value per input, position-aligned
RankOf(pvals, k) == Cardinality({m \in 1..Len(pvals) : pvals[m] <= pvals[k]})
MultipleTests(pvals) ==
  [i \in 1..Len(pvals) |->
     MinOf({One} \cup {(pvals[k] * Len(pvals)) \div RankOf(pvals, k) :
                         k \in {m \in 1..Len(pvals) : pvals[m] >= pvals[i]}})]

\* results_df[...] = results_df[...] < fdr_alpha
AtMost(value, alpha) == value <= alpha
Below(value, alpha) == value < alpha

\* results_df.sort_values(by=["FDR", "P_value_Raw"]): ascending, rows that tie on
\* both keys keep their order
KeyLE(a, b) == a.FDR < b.FDR \/ (a.FDR = b.FDR /\ a.P_value_Raw <= b.P_value_Raw)

RECURSIVE InsertSorted(_, _)
InsertSorted(sorted, row) ==
  IF sorted = <<>> THEN <<row>>
  ELSE IF KeyLE(Head(sorted), row)
       THEN <<Head(sorted)>> \o InsertSorted(Tail(sorted), row)
       ELSE <<row>> \o sorted

RECURSIVE SortRows(_)
SortRows(rows) ==
  IF rows = <<>> THEN <<>>
  ELSE InsertSorted(SortRows(SubSeq(rows, 1, Len(rows) - 1)), rows[Len(rows)])

Unsorted(rows) == rows
SortValues(rows) == SortRows(rows)

\* lines 145-153: FDR column, the two flags, the sort
Corrected(rows, alpha) ==
  LET fdr == MultipleTests([i \in 1..Len(rows) |-> rows[i].P_value_Raw])
  IN SortValues([i \in 1..Len(rows) |->
       [Variable |-> rows[i].Variable, JTR_Sum |-> rows[i].JTR_Sum,
        Z_statistic |-> rows[i].Z_statistic, P_value_Raw |-> rows[i].P_value_Raw,
        FDR |-> fdr[i],
        Sig_Raw |-> Below(rows[i].P_value_Raw, alpha),
        Sig_FDR |-> Below(fdr[i], alpha)]])

\* the columns written, in this order; the flag's label carries the threshold
OutCols == <<"Variable", "P_value_Raw", "FDR", "Sig_FDR", "Z_statistic", "JTR_Sum">>

NoFile == [exists |-> FALSE, header |-> <<>>, threshold |-> 0, rows |-> <<>>]
Stale == [exists |-> TRUE, header |-> <<"old">>, threshold |-> 0, rows |-> <<>>]

OutRow(row) ==
  [Variable |-> row.Variable, P_value_Raw |-> row.P_value_Raw, FDR |-> row.FDR,
   Sig_FDR |-> row.Sig_FDR, Z_statistic |-> row.Z_statistic, JTR_Sum |-> row.JTR_Sum]

\* results_df[cols].to_csv(output_file, index=False): the file is replaced
AppendCsv(old, frame, alpha) ==
  [exists |-> TRUE, header |-> OutCols, threshold |-> alpha,
   rows |-> old.rows \o [i \in 1..Len(frame) |-> OutRow(frame[i])]]
ToCsv(old, frame, alpha) ==
  [exists |-> TRUE, header |-> OutCols, threshold |-> alpha,
   rows |-> [i \in 1..Len(frame) |-> OutRow(frame[i])]]

\* ------------------------------------------------------------- inputs
A == <<"A">>
B == <<"B">>
Num == <<"1">>
Txt == <<"s">>

GroupName == "Group"
IdName == "Sample Name"
Names == <<GroupName, "FeatureA", "FeatureB", IdName>>
Width == IF MaxCols < Len(Names) THEN MaxCols ELSE Len(Names)
Rows == 1..MaxRows

Alternating == [r \in Rows |-> IF r % 2 = 1 THEN A ELSE B]
AllOf(cell) == [r \in Rows |-> cell]
Column(name, cells) == [name |-> name, cells |-> cells]
File(cols) == [readable |-> TRUE, cols |-> cols]
Unreadable == [readable |-> FALSE, cols |-> <<>>]

\* every order of up to MaxCols distinct column names
Layouts ==
  {l \in UNION {[1..n -> Range(Names)] : n \in 1..Width} : IsDistinct(l)}

\* the cells of a column of a well-formed table, by the kind of its group and
\* identifier columns
DefaultCells(name, gkind, skind) ==
  IF name = GroupName THEN (IF gkind = "text" THEN Alternating ELSE AllOf(Num))
  ELSE IF name = IdName THEN (IF skind = "text" THEN AllOf(Txt) ELSE AllOf(Num))
  ELSE AllOf(Num)

Laid(l, gkind, skind) ==
  File([c \in 1..Len(l) |-> Column(l[c], DefaultCells(l[c], gkind, skind))])

Plain == Laid(SubSeq(Names, 1, Width), "text", "number")

Orders ==
  { <<"A", ",", "B">>, <<"B", ",", "A">>, <<" ", "A", " ", ",", "B">>, <<"A">>,
    <<"A", ",", "A">>, <<"A", ",", " ", "A">>, <<"B", ",", ",", "A">>, <<>>,
    <<"1", ",", "A">> }

Alternatives == AltKeys \cup {"", "up", "LESS"}

Alphas == {PVal(k) : k \in 0..PMax}

Args(file, order, id, alt, alpha, out) ==
  [csv_file |-> file, group_column |-> GroupName, group_order |-> order,
   id_column |-> id, alternative |-> alt, fdr_alpha |-> alpha, existing |-> out]

\* tables of every layout and column kind, with and without the default
\* identifier name
ByLayout ==
  {Args(Laid(l, k[1], k[2]), <<"A", ",", "B">>, id, "two_sided", PVal(1), NoFile) :
     l \in Layouts,
     k \in {<<"text", "number">>, <<"text", "text">>, <<"number", "number">>},
     id \in {IdName, "ID"}}

\* every content of the grouping column and of one feature column, under
\* every order string
ByContent ==
  {Args(File(<<Column(GroupName, g), Column("FeatureA", x), Column("FeatureB", AllOf(Num))>>),
        order, IdName, "two_sided", PVal(1), NoFile) :
     g \in [Rows -> {NA, A, B, Num}], x \in [Rows -> {NA, Num}], order \in Orders}

\* every threshold, over a fresh and over an existing output file
ByAlpha ==
  {Args(Plain, <<"A", ",", "B">>, "ID", "two_sided", alpha, out) :
     alpha \in Alphas, out \in {NoFile, Stale}}

ByAlternative ==
  {Args(Plain, <<"A", ",", "B">>, IdName, alt, PVal(1), NoFile) : alt \in Alternatives}

Unread ==
  {Args(Unreadable, <<"A", ",", "B">>, IdName, "two_sided", PVal(1), out) :
     out \in {NoFile, Stale}}

Inputs == ByLayout \cup ByContent \cup ByAlpha \cup ByAlternative \cup Unread

\* -------------------------------------------------------------- state
VARIABLES
  args,            \* the command line and the files it names
  output,          \* the output file
  pc,              \* where jt_test is
  exit_code,       \* the exit status, -1 while running
  console,         \* the messages printed
  df, ordered_groups, df_filtered, target_columns, jt_alternative,
  idx,             \* position of the loop in target_columns, 0 before the loop
  results, results_df,
  calls,           \* the calls made to the external test
  ext,             \* what the external test did, by column
  run, previous    \* the run number, and the outcome of the run before

vars == <<args, output, pc, exit_code, console, df, ordered_groups, df_filtered,
          target_columns, jt_alternative, idx, results, results_df, calls, ext,
          run, previous>>

NoFrame == [index |-> <<>>, cols |-> <<>>]
NotRun == [exit_code |-> -1, output |-> NoFile]
Running == NotRun.exit_code

Init ==
  /\ args \in Inputs
  /\ output = args.existing
  /\ pc = "read"
  /\ exit_code = Running
  /\ console = <<>>
  /\ df = <<>>
  /\ ordered_groups = <<>>
  /\ df_filtered = NoFrame
  /\ target_columns = <<>>
  /\ jt_alternative = ""
  /\ idx = 0
  /\ results = <<>>
  /\ results_df = <<>>
  /\ calls = <<>>
  /\ ext = <<>>
  /\ run = 1
  /\ previous = NotRun

Exit(code, message) ==
  /\ pc' = "done"
  /\ exit_code' = code
  /\ console' = Append(console, message)

\* lines 39-43
Read ==
  /\ pc = "read"
  /\ IF args.csv_file.readable
     THEN /\ df' = ReadCsv(args.csv_file)
          /\ pc' = "validate"
          /\ UNCHANGED <<exit_code, console>>
     ELSE /\ Exit(1, "read failed")
          /\ UNCHANGED df
  /\ UNCHANGED <<args, output, ordered_groups, df_filtered, target_columns,
                 jt_alternative, idx, results, results_df, calls, ext, run, previous>>

\* if group_column not in df.columns: exit 1
AnyColumn(frame, group_column) == TRUE
HasColumn(frame, group_column) == group_column \in Columns(frame)

\* lines 46-48
Validate ==
  /\ pc = "validate"
  /\ IF HasColumn(df, args.group_column)
     THEN /\ pc' = "filter"
          /\ UNCHANGED <<exit_code, console>>
     ELSE Exit(1, "no group column")
  /\ UNCHANGED <<args, output, df, ordered_groups, df_filtered, target_columns,
                 jt_alternative, idx, results, results_df, calls, ext, run, previous>>

\* lines 51-57; pd.Categorical raises ValueError on categories that repeat, and
\* nothing catches it
Filter ==
  /\ pc = "filter"
  /\ ordered_groups' = OrderedGroups(args.group_order)
  /\ IF IsDistinct(ordered_groups')
     THEN /\ df_filtered' = FilterGroups(df, args.group_column, ordered_groups')
          /\ pc' = "select"
          /\ UNCHANGED <<exit_code, console>>
     ELSE /\ pc' = "crashed"
          /\ exit_code' = 1
          /\ console' = Append(console, "traceback")
          /\ UNCHANGED df_filtered
  /\ UNCHANGED <<args, output, df, target_columns, jt_alternative, idx, results,
                 results_df, calls, ext, run, previous>>

\* lines 60-69
Select ==
  /\ pc = "select"
  /\ target_columns' =
       TargetColumns(df_filtered, ColsToExclude(df, args.group_column, args.id_column))
  /\ IF target_columns' = <<>>
     THEN Exit(0, "no numeric columns")
     ELSE /\ pc' = "map"
          /\ console' = Append(console, "analysing")
          /\ UNCHANGED exit_code
  /\ UNCHANGED <<args, output, df, ordered_groups, df_filtered, jt_alternative, idx,
                 results, results_df, calls, ext, run, previous>>

\* lines 77-89
MapAlternative ==
  /\ pc = "map"
  /\ jt_alternative' = AltMap(args.alternative)
  /\ results' = <<>>
  /\ idx' = 1
  /\ pc' = "loop"
  /\ UNCHANGED <<args, output, exit_code, console, df, ordered_groups, df_filtered,
                 target_columns, results_df, calls, ext, run, previous>>

InLoop == pc = "loop" /\ idx <= Len(target_columns)
Col == target_columns[idx]
Data == CurrentData(df_filtered, Col, args.group_column, ordered_groups)

\* lines 100-103
ColumnSkipped ==
  /\ InLoop
  /\ ~HasUsableRows(Data)
  /\ idx' = NextColumn(idx, Len(target_columns))
  /\ UNCHANGED <<args, output, pc, exit_code, console, df, ordered_groups, df_filtered,
                 target_columns, jt_alternative, results, results_df, calls, ext,
                 run, previous>>

Call(r) ==
  /\ InLoop
  /\ HasUsableRows(Data)
  /\ Col \in DOMAIN ext => r = ext[Col]
  /\ ext' = (Col :> r) @@ ext
  /\ calls' = Append(calls, [col |-> Col,
                             x |-> [k \in 1..Len(Data) |-> Data[k].x],
                             groups |-> [k \in 1..Len(Data) |-> Data[k].g],
                             alternative |-> jt_alternative])

\* lines 105-115 and 136-138: the test raises
ColumnRaises ==
  /\ Call(Raised)
  /\ idx' = NextColumn(idx, Len(target_columns))
  /\ UNCHANGED <<args, output, pc, exit_code, console, df, ordered_groups, df_filtered,
                 target_columns, jt_alternative, results, results_df, run, previous>>

\* lines 105-134: the test returns
ColumnTested ==
  /\ \E r \in Outcomes \ {Raised} :
       /\ Call(r)
       /\ results' = Append(results, ResultRow(Col, r))
  /\ idx' = idx + 1
  /\ UNCHANGED <<args, output, pc, exit_code, console, df, ordered_groups, df_filtered,
                 target_columns, jt_alternative, results_df, run, previous>>

LoopDone == pc = "loop" /\ idx > Len(target_columns)

\* results_df.empty
NeverEmptyFrame(rows) == FALSE
Empty(rows) == rows = <<>>

\* lines 142-171
Correct ==
  /\ LoopDone
  /\ ~Empty(results)
  /\ results_df' = Corrected(results, args.fdr_alpha)
  /\ console' = Append(console, "summary")
  /\ pc' = "write"
  /\ UNCHANGED <<args, output, exit_code, df, ordered_groups, df_filtered,
                 target_columns, jt_alternative, idx, results, calls, ext, run, previous>>

\* lines 173-185
Write ==
  /\ pc = "write"
  /\ output' = ToCsv(output, results_df, args.fdr_alpha)
  /\ Exit(0, "success")
  /\ UNCHANGED <<args, df, ordered_groups, df_filtered, target_columns, jt_alternative,
                 idx, results, results_df, calls, ext, run, previous>>

\* lines 144 and 186-187
NoResults ==
  /\ LoopDone
  /\ Empty(results)
  /\ Exit(0, "no results")
  /\ UNCHANGED <<args, output, df, ordered_groups, df_filtered, target_columns,
                 jt_alternative, idx, results, results_df, calls, ext, run, previous>>

Next ==
  \/ Read \/ Validate \/ Filter \/ Select \/ MapAlternative
  \/ ColumnSkipped \/ ColumnRaises \/ ColumnTested
  \/ Correct \/ Write \/ NoResults

Spec == Init /\ [][Next]_vars

\* the command is run once more on the same files with the same arguments, and
\* the external test behaves as it did
Rerun ==
  /\ pc \in {"done", "crashed"}
  /\ run = 1
  /\ run' = 2
  /\ previous' = [exit_code |-> exit_code, output |-> output]
  /\ pc' = "read"
  /\ exit_code' = Running
  /\ console' = <<>>
  /\ df' = <<>>
  /\ ordered_groups' = <<>>
  /\ df_filtered' = NoFrame
  /\ target_columns' = <<>>
  /\ jt_alternative' = ""
  /\ idx' = 0
  /\ results' = <<>>
  /\ results_df' = <<>>
  /\ calls' = <<>>
  /\ UNCHANGED <<args, output, ext>>

NextTwice == Next \/ Rerun
SpecTwice == Init /\ [][NextTwice]_vars

\* ---------------------------------------------------------- properties
Last(s) == s[Len(s)]
Said(message) == console # <<>> /\ Last(console) = message
Written == pc = "done" /\ Said("success")
PastFilter == pc \in {"select", "map", "loop", "write"} \/ (pc = "done" /\ df_filtered # NoFrame)
PastSelect == pc \in {"map", "loop", "write"} \/ (pc = "done" /\ df_filtered # NoFrame)
AfterLoop == idx > 0 /\ idx > Len(target_columns)
Targets == Range(target_columns)
Visited == {target_columns[j] : j \in {k \in 1..Len(target_columns) : k < idx}}
Called == {calls[i].col : i \in 1..Len(calls)}

\* the rows of the filtered table where column c holds a value
UsableCount(c) ==
  Cardinality({k \in 1..Len(df_filtered.index) : ColOf(df_filtered.cols, c).cells[k] # NA})
NoUsableRows == {c \in Targets : UsableCount(c) = 0}
RaisedOn == {c \in Targets : c \in DOMAIN ext /\ ext[c].raises}
Failed == NoUsableRows \cup RaisedOn
Succeeded == Targets \ Failed

\* C1: the results hold exactly one entry for every target column visited so far
\* that had a usable row and whose test did not raise, and none for any other
\* column; after the loop and in the file written, the number of rows is the
\* number of target columns minus those with no usable row or an exception
C1_OneEntryPerTestedColumn ==
  /\ {results[i].Variable : i \in 1..Len(results)} = Visited \cap Succeeded
  /\ Len(results) = Cardinality(Visited \cap Succeeded)
  /\ AfterLoop => Len(results) = Len(target_columns) - Cardinality(Failed)
  /\ Written => Len(output.rows) = Len(target_columns) - Cardinality(Failed)

C1_Witness ==
  /\ Written
  /\ NoUsableRows # {}
  /\ Succeeded # {}
  /\ Len(output.rows) = Len(target_columns) - Cardinality(Failed)

RECURSIVE RowsOf(_)
RowsOf(cols) ==
  IF cols = <<>> THEN <<>>
  ELSE (IF Head(cols) \in Succeeded THEN <<ResultRow(Head(cols), ext[Head(cols)])>> ELSE <<>>)
       \o RowsOf(Tail(cols))

\* C2: a column that fails does not end the loop: after the loop every target
\* column with a usable row was handed to the test, the entries recorded are
\* those of the columns that did not fail, each as the test returned it, and
\* when one column succeeded the run ends with status 0 and a file holding them
C2_PerColumnIsolation ==
  /\ pc \in {"loop", "write", "done"} => idx <= Len(target_columns) + 1
  /\ AfterLoop =>
       /\ Targets \ NoUsableRows \subseteq Called
       /\ results = RowsOf(target_columns)
       /\ pc \in {"loop", "write", "done"}
  /\ (AfterLoop /\ pc = "done" /\ Succeeded # {}) =>
       /\ exit_code = 0
       /\ {output.rows[i].Variable : i \in 1..Len(output.rows)} = Succeeded

C2_Witness ==
  /\ Written
  /\ \E i, j \in 1..Len(target_columns) :
       /\ i < j
       /\ target_columns[i] \in RaisedOn
       /\ target_columns[j] \in Succeeded
       /\ \E k \in 1..Len(output.rows) : output.rows[k].Variable = target_columns[j]

FileColumns == {args.csv_file.cols[c].name : c \in 1..Len(args.csv_file.cols)}
Invalid == ~args.csv_file.readable \/ args.group_column \notin FileColumns

\* C3: when the file cannot be read or lacks the grouping column, the run ends
\* with status 1 right after the check, no later step runs and the output file
\* is left as it was
C3_FatalBeforeAnyWork ==
  Invalid =>
    /\ pc \in {"read", "validate", "done"}
    /\ pc = "done" => exit_code = 1
    /\ output = args.existing
    /\ ordered_groups = <<>> /\ df_filtered = NoFrame /\ target_columns = <<>>
    /\ idx = 0 /\ calls = <<>> /\ results = <<>> /\ results_df = <<>>

C3_Witness ==
  /\ args.csv_file.readable
  /\ args.group_column \notin FileColumns
  /\ pc = "done" /\ exit_code = 1
  /\ output = args.existing

\* C4: with no target column the run ends with status 0 before the loop; with
\* no result after the loop the corrector is not invoked, "no results" is said
\* and the status is 0; the output file is changed only by a run whose results
\* are not empty, and holds them corrected, flagged and sorted
C4_DegenerateSuccess ==
  /\ (PastSelect /\ target_columns = <<>>) =>
       /\ pc = "done" /\ exit_code = 0 /\ Said("no numeric columns")
       /\ idx = 0 /\ calls = <<>> /\ results_df = <<>>
       /\ output = args.existing
  /\ (AfterLoop /\ results = <<>>) =>
       /\ pc \in {"loop", "done"}
       /\ results_df = <<>>
       /\ output = args.existing
       /\ pc = "done" => (exit_code = 0 /\ Said("no results"))
  /\ output # args.existing =>
       /\ results # <<>>
       /\ Written
       /\ results_df = SortValues(results_df)
       /\ output.rows = [i \in 1..Len(results_df) |-> OutRow(results_df[i])]
       /\ Len(results_df) = Len(results)

C4_Witness ==
  /\ pc = "done" /\ exit_code = 0
  /\ target_columns # <<>>
  /\ AfterLoop
  /\ results = <<>>
  /\ Said("no results")
  /\ args.existing = NoFile /\ output = NoFile

\* the cell of the grouping column in row r of the input file, as written
GroupCell(r) ==
  args.csv_file.cols[MinOf({c \in 1..Len(args.csv_file.cols) :
                              args.csv_file.cols[c].name = args.group_column})].cells[r]
FileRows == 1..NRows(args.csv_file.cols)

\* the cell of column c in row r of the input file, as written
FileCell(c, r) ==
  args.csv_file.cols[MinOf({n \in 1..Len(args.csv_file.cols) :
                              args.csv_file.cols[n].name = c})].cells[r]
LabelRow(r) == GroupCell(r) # NA /\ GroupCell(r) \in Range(ordered_groups)

RECURSIVE LabelCodes(_, _)
LabelCodes(c, r) ==
  IF r > NRows(args.csv_file.cols) THEN <<>>
  ELSE (IF LabelRow(r) /\ FileCell(c, r) # NA
        THEN <<IndexOf(ordered_groups, GroupCell(r)) - 1>> ELSE <<>>)
       \o LabelCodes(c, r + 1)

\* C5: with distinct labels, the rows kept are exactly the rows of the input
\* whose grouping value is one of the labels, and the group codes handed to the
\* test for a column are the 0-based positions of its rows' labels in the list,
\* each in 0..k-1
C5_KeptRowsAreLabelRows ==
  (PastFilter /\ IsDistinct(ordered_groups)) =>
    /\ Range(df_filtered.index) = {r \in FileRows : LabelRow(r)}
    /\ \A i \in 1..Len(calls) :
         /\ calls[i].groups = LabelCodes(calls[i].col, 1)
         /\ \A k \in 1..Len(calls[i].groups) :
              calls[i].groups[k] \in 0..(Len(ordered_groups) - 1)

\* C6: the target columns are the numeric columns of the filtered table other
\* than the grouping and the identifier column, in table order, and the test is
\* called in that order
C6_TargetColumns ==
  PastSelect =>
    /\ target_columns =
         SelectSeq([c \in 1..Len(df_filtered.cols) |-> df_filtered.cols[c].name],
                   LAMBDA n : /\ ColOf(df_filtered.cols, n).dtype = "number"
                              /\ n # args.group_column
                              /\ n # args.id_column)
    /\ \A i, j \in 1..Len(calls) :
         i < j => IndexOf(target_columns, calls[i].col) < IndexOf(target_columns, calls[j].col)

C6_Witness ==
  /\ Written
  /\ args.id_column \in Columns(df)
  /\ ColOf(df, args.id_column).dtype = "number"
  /\ args.id_column \notin Targets
  /\ Called # {}

\* C7: a row is flagged by FDR exactly when its adjusted p-value is below the
\* threshold, and flagged raw exactly when its raw p-value is; a value equal to
\* the threshold is not flagged
C7_FlagsAreStrict ==
  \A i \in 1..Len(results_df) :
    /\ results_df[i].Sig_FDR <=> results_df[i].FDR < args.fdr_alpha
    /\ results_df[i].Sig_Raw <=> results_df[i].P_value_Raw < args.fdr_alpha

C7_Witness ==
  \E i, j \in 1..Len(results_df) :
    /\ results_df[i].FDR = args.fdr_alpha /\ ~results_df[i].Sig_FDR
    /\ results_df[i].P_value_Raw < args.fdr_alpha /\ results_df[i].Sig_Raw
    /\ results_df[j].P_value_Raw = args.fdr_alpha /\ ~results_df[j].Sig_Raw

\* C8: the rows written are the corrected results, each once and with its own
\* values, in ascending order of (FDR, raw p-value)
C8_OutputSorted ==
  Written =>
    LET fdr == MultipleTests([i \in 1..Len(results) |-> results[i].P_value_Raw])
        out == output.rows
    IN /\ Len(out) = Len(results)
       /\ \A i \in 1..Len(results) : \E j \in 1..Len(out) :
            /\ out[j] = [Variable |-> results[i].Variable,
                         P_value_Raw |-> results[i].P_value_Raw,
                         FDR |-> fdr[i],
                         Sig_FDR |-> fdr[i] < args.fdr_alpha,
                         Z_statistic |-> results[i].Z_statistic,
                         JTR_Sum |-> results[i].JTR_Sum]
            /\ \A k \in 1..Len(out) : out[k].Variable = results[i].Variable => k = j
       /\ \A j \in 1..(Len(out) - 1) :
            \/ out[j].FDR < out[j + 1].FDR
            \/ out[j].FDR = out[j + 1].FDR /\ out[j].P_value_Raw <= out[j + 1].P_value_Raw

C8_Witness ==
  /\ Written
  /\ Len(results) >= 2
  /\ results[1].P_value_Raw > results[2].P_value_Raw
  /\ output.rows[1].Variable = results[2].Variable
  /\ output.rows[1].FDR = output.rows[2].FDR
  /\ output.rows[1].P_value_Raw < output.rows[2].P_value_Raw

\* C9: a second run on the same input with the same arguments ends with the
\* status of the first and leaves the output file with the content the first
\* wrote, columns and rows in the same order
C9_RerunIsIdempotent ==
  (run = 2 /\ pc \in {"done", "crashed"}) =>
    /\ exit_code = previous.exit_code
    /\ output = previous.output
    /\ Written => output.header = OutCols

C9_Witness ==
  /\ run = 2 /\ Written
  /\ output = previous.output
  /\ Len(output.rows) >= 2
  /\ output.rows[1].FDR = output.rows[2].FDR
  /\ output.rows[1].P_value_Raw = output.rows[2].P_value_Raw

\* C10: the direction handed to the test is given by the fixed table, with
\* "two-sided" for any other value, and is the same for every column of a run
C10_DirectionTable ==
  LET a == args.alternative
      want == IF a = "two_sided" \/ a = "two-sided" THEN "two-sided"
              ELSE IF a = "greater" \/ a = "increasing" THEN "increasing"
              ELSE IF a = "less" \/ a = "decreasing" THEN "decreasing"
              ELSE "two-sided"
  IN /\ pc \in {"loop", "write"} => jt_alternative = want
     /\ \A i \in 1..Len(calls) : calls[i].alternative = want

C10_Witness ==
  /\ args.alternative \notin AltKeys
  /\ Len(calls) >= 2
  /\ \A i \in 1..Len(calls) : calls[i].alternative = "two-sided"

====
